---------------------------- MODULE Spec2Model ----------------------------
(***************************************************************************)
(* A model of src/app.py: the field schema builder (build_json_schema,     *)
(* validate_schema_fields), the response validator                         *)
(* (validate_against_schema), the retry loop of extract_structured_data    *)
(* and the session state the Streamlit handlers keep (schema_fields,       *)
(* templates, processed_docs, selected_doc_id, show_result_modal).         *)
(*                                                                         *)
(* Text is a sequence of characters, so that str.strip() is computed.      *)
(* A Python dict is a sequence of [key, value] entries in insertion order. *)
(* A decoded JSON value is a record [kind, val, elems, pairs].             *)
(***************************************************************************)
EXTENDS Integers, Sequences, FiniteSets, TLC

VARIABLES
    \* st.session_state of the schema builder tab
    schema_fields, templates, notice, interactions,
    processed_docs, selected_doc_id, show_result_modal, uuids, processing,
    \* one call of build_json_schema / validate_schema_fields
    f_fields, f_schema, f_check, f_pc,
    \* one call of validate_against_schema
    v_schema, v_top, v_idx, v_item, v_data, v_ret, v_pc,
    \* one call of extract_structured_data
    schema, max_retries, attempt, calls, raw_output, last_raw_output,
    last_error, ret, e_pc

docVars == <<processed_docs, selected_doc_id, show_result_modal, uuids,
             processing>>
sessionVars == <<schema_fields, templates, notice, interactions, docVars>>
fieldVars == <<f_fields, f_schema, f_check, f_pc>>
validateVars == <<v_schema, v_top, v_idx, v_item, v_data, v_ret, v_pc>>
extractVars == <<schema, max_retries, attempt, calls, raw_output,
                 last_raw_output, last_error, ret, e_pc>>
vars == <<sessionVars, fieldVars, validateVars, extractVars>>

-----------------------------------------------------------------------------
(* Bounds *)

MaxFields == 2
MaxItems == 2
MaxRetriesBound == 2
MaxInteractions == 5

-----------------------------------------------------------------------------
(* Text *)

Whitespace == {" "}

RECURSIVE LStrip(_)
LStrip(s) ==
    IF s = <<>> THEN s
    ELSE IF Head(s) \in Whitespace THEN LStrip(Tail(s)) ELSE s

RECURSIVE RStrip(_)
RStrip(s) ==
    IF s = <<>> THEN s
    ELSE IF s[Len(s)] \in Whitespace THEN RStrip(SubSeq(s, 1, Len(s) - 1)) ELSE s

\* str.strip()
Strip(s) == RStrip(LStrip(s))

\* the texts a user types into a field-name input
FieldNames == { <<>>, <<" ">>, <<"a">>, <<" ", "a", " ">>, <<"b">> }

\* the texts a user types into a field-description input
Descriptions == { <<>>, <<"h", " ">> }

\* options of the type selectbox
FieldTypes == {"string", "number", "boolean"}

FieldDefs ==
    [name : FieldNames, type : FieldTypes, required : BOOLEAN,
     description : Descriptions]

FieldLists == UNION { [1..n -> FieldDefs] : n \in 0..MaxFields }

-----------------------------------------------------------------------------
(* Python dict: entries in insertion order, keys distinct *)

DictKeys(d) == { d[i].key : i \in 1..Len(d) }

DictHas(d, k) == \E i \in 1..Len(d) : d[i].key = k

DictGet(d, k) == d[CHOOSE i \in 1..Len(d) : d[i].key = k].value

\* d[k] = v: an existing key keeps its position
DictSet(d, k, v) ==
    IF DictHas(d, k)
    THEN [i \in 1..Len(d) |-> IF d[i].key = k THEN [key |-> k, value |-> v] ELSE d[i]]
    ELSE Append(d, [key |-> k, value |-> v])

-----------------------------------------------------------------------------
(* build_json_schema *)

RECURSIVE BuildProperties(_, _)
BuildProperties(fields, properties) ==
    IF fields = <<>> THEN properties
    ELSE LET field == Head(fields)
             name == Strip(field.name)
         IN  IF name = <<>>
             THEN BuildProperties(Tail(fields), properties)
             ELSE BuildProperties(Tail(fields),
                      DictSet(properties, name, [type |-> field.type]))

RECURSIVE BuildRequired(_, _)
BuildRequired(fields, required) ==
    IF fields = <<>> THEN required
    ELSE LET field == Head(fields)
             name == Strip(field.name)
         IN  IF name = <<>>
             THEN BuildRequired(Tail(fields), required)
             ELSE BuildRequired(Tail(fields),
                      IF field.required THEN Append(required, name) ELSE required)

MakeSchema(properties, required) ==
    [type |-> "array",
     items |-> [type |-> "object", properties |-> properties, required |-> required]]

\* a plausible bug: the empty-name check is missing
RECURSIVE PropertiesNoSkip(_, _)
PropertiesNoSkip(fields, properties) ==
    IF fields = <<>> THEN properties
    ELSE PropertiesNoSkip(Tail(fields),
             DictSet(properties, Strip(Head(fields).name), [type |-> Head(fields).type]))

BuildJsonSchemaNoSkip(fields) ==
    MakeSchema(PropertiesNoSkip(fields, <<>>), BuildRequired(fields, <<>>))

BuildJsonSchema(fields) ==
    MakeSchema(BuildProperties(fields, <<>>), BuildRequired(fields, <<>>))

-----------------------------------------------------------------------------
(* validate_schema_fields *)

EmptyFieldSet == "add at least one field with a non-empty name"
DuplicateFieldName == "field names must be unique"
NoMessage == "None"

RECURSIVE StrippedNames(_)
StrippedNames(fields) ==
    IF fields = <<>> THEN <<>>
    ELSE LET name == Strip(Head(fields).name)
         IN  IF name = <<>> THEN StrippedNames(Tail(fields))
             ELSE <<name>> \o StrippedNames(Tail(fields))

SeqToSet(s) == { s[i] : i \in 1..Len(s) }

\* a plausible bug: names are compared before they are stripped
ValidateSchemaFieldsUnstripped(fields) ==
    LET names == SelectSeq([i \in 1..Len(fields) |-> fields[i].name],
                           LAMBDA n : Strip(n) # <<>>)
    IN  IF names = <<>> THEN [ok |-> FALSE, error |-> EmptyFieldSet]
        ELSE IF Cardinality(SeqToSet(names)) # Len(names)
             THEN [ok |-> FALSE, error |-> DuplicateFieldName]
             ELSE [ok |-> TRUE, error |-> NoMessage]

ValidateSchemaFields(fields) ==
    LET names == StrippedNames(fields)
    IN  IF names = <<>> THEN [ok |-> FALSE, error |-> EmptyFieldSet]
        ELSE IF Cardinality(SeqToSet(names)) # Len(names)
             THEN [ok |-> FALSE, error |-> DuplicateFieldName]
             ELSE [ok |-> TRUE, error |-> NoMessage]

-----------------------------------------------------------------------------
(* Decoded JSON values, as json.loads returns them *)

JNull == [kind |-> "null", val |-> "null", elems |-> <<>>, pairs |-> <<>>]
JStr(text) == [kind |-> "str", val |-> text, elems |-> <<>>, pairs |-> <<>>]
JInt(text) == [kind |-> "int", val |-> text, elems |-> <<>>, pairs |-> <<>>]
JFloat(text) == [kind |-> "float", val |-> text, elems |-> <<>>, pairs |-> <<>>]
JBool(text) == [kind |-> "bool", val |-> text, elems |-> <<>>, pairs |-> <<>>]
JList(elems) == [kind |-> "list", val |-> "", elems |-> elems, pairs |-> <<>>]
JDict(pairs) == [kind |-> "dict", val |-> "", elems |-> <<>>, pairs |-> pairs]

\* Python's None is what JSON null decodes to
PyNone == JNull

JsonKinds == {"null", "str", "int", "float", "bool", "list", "dict"}

\* the classes a decoded value is an instance of: bool is a subclass of int
PyClasses(kind) ==
    CASE kind = "null" -> {"NoneType"}
      [] kind = "str" -> {"str"}
      [] kind = "int" -> {"int"}
      [] kind = "float" -> {"float"}
      [] kind = "bool" -> {"bool", "int"}
      [] kind = "list" -> {"list"}
      [] kind = "dict" -> {"dict"}

\* isinstance(value, classes)
IsInstance(kind, classes) == PyClasses(kind) \cap classes # {}

-----------------------------------------------------------------------------
(* validate_against_schema *)

NoFailure == [kind |-> "None", idx |-> -1, key |-> <<>>, detail |-> ""]
NotAnArray == [kind |-> "NotAnArray", idx |-> -1, key |-> <<>>, detail |-> ""]
ElementNotAnObject(idx) ==
    [kind |-> "ElementNotAnObject", idx |-> idx, key |-> <<>>, detail |-> ""]
MissingRequiredField(idx, req) ==
    [kind |-> "MissingRequiredField", idx |-> idx, key |-> req, detail |-> ""]
TypeMismatch(idx, key, expected) ==
    [kind |-> "TypeMismatch", idx |-> idx, key |-> key, detail |-> expected]

\* item[req] in (None, "")
IsNoneOrEmpty(value) ==
    \/ value = PyNone
    \/ value = JStr("")

\* for req in required_fields: the first required field that is missing
RECURSIVE CheckRequired(_, _, _)
CheckRequired(idx, item, required_fields) ==
    IF required_fields = <<>> THEN NoFailure
    ELSE LET req == Head(required_fields)
         IN  IF ~DictHas(item.pairs, req) \/ IsNoneOrEmpty(DictGet(item.pairs, req))
             THEN MissingRequiredField(idx, req)
             ELSE CheckRequired(idx, item, Tail(required_fields))

\* the if/elif chain on expected_type
TypeFails(expected_type, value) ==
    \/ expected_type = "string" /\ ~IsInstance(value.kind, {"str"})
    \/ expected_type = "number" /\ ~IsInstance(value.kind, {"int", "float"})
    \/ expected_type = "boolean" /\ ~IsInstance(value.kind, {"bool"})

\* for key, value in item.items(): the first declared key of the wrong type
RECURSIVE CheckTypes(_, _, _)
CheckTypes(idx, pairs, properties) ==
    IF pairs = <<>> THEN NoFailure
    ELSE LET key == Head(pairs).key
             value == Head(pairs).value
         IN  IF ~DictHas(properties, key)
             THEN CheckTypes(idx, Tail(pairs), properties)
             ELSE IF TypeFails(DictGet(properties, key).type, value)
                  THEN TypeMismatch(idx, key, DictGet(properties, key).type)
                  ELSE CheckTypes(idx, Tail(pairs), properties)

\* a plausible bug: undeclared keys are rejected (a closed schema)
ValidateItemClosed(idx, item, item_schema) ==
    IF ~IsInstance(item.kind, {"dict"}) THEN ElementNotAnObject(idx)
    ELSE IF \E i \in 1..Len(item.pairs) :
                ~DictHas(item_schema.properties, item.pairs[i].key)
         THEN TypeMismatch(idx, <<>>, "undeclared")
         ELSE LET missing == CheckRequired(idx, item, item_schema.required)
              IN  IF missing # NoFailure THEN missing
                  ELSE CheckTypes(idx, item.pairs, item_schema.properties)

\* a plausible bug: a required key is only looked up, its value not inspected
ValidateItemPresenceOnly(idx, item, item_schema) ==
    IF ~IsInstance(item.kind, {"dict"}) THEN ElementNotAnObject(idx)
    ELSE LET absent == SelectSeq(item_schema.required,
                                 LAMBDA req : ~DictHas(item.pairs, req))
         IN  IF absent # <<>> THEN MissingRequiredField(idx, Head(absent))
             ELSE CheckTypes(idx, item.pairs, item_schema.properties)

\* a plausible bug: the types are checked before the required fields
ValidateItemTypesFirst(idx, item, item_schema) ==
    IF ~IsInstance(item.kind, {"dict"}) THEN ElementNotAnObject(idx)
    ELSE LET mismatch == CheckTypes(idx, item.pairs, item_schema.properties)
         IN  IF mismatch # NoFailure THEN mismatch
             ELSE CheckRequired(idx, item, item_schema.required)

\* the body of "for idx, item in enumerate(data)": the failure it returns,
\* or NoFailure when the loop goes on
ValidateItem(idx, item, item_schema) ==
    IF ~IsInstance(item.kind, {"dict"}) THEN ElementNotAnObject(idx)
    ELSE LET missing == CheckRequired(idx, item, item_schema.required)
         IN  IF missing # NoFailure THEN missing
             ELSE CheckTypes(idx, item.pairs, item_schema.properties)

RECURSIVE ValidateItems(_, _, _)
ValidateItems(idx, elems, item_schema) ==
    IF elems = <<>> THEN NoFailure
    ELSE LET failure == ValidateItem(idx, Head(elems), item_schema)
         IN  IF failure # NoFailure THEN failure
             ELSE ValidateItems(idx + 1, Tail(elems), item_schema)

\* (is_valid, error)
ValidateAgainstSchema(data, a_schema) ==
    IF ~IsInstance(data.kind, {"list"}) THEN [ok |-> FALSE, error |-> NotAnArray]
    ELSE LET failure == ValidateItems(0, data.elems, a_schema.items)
         IN  IF failure # NoFailure THEN [ok |-> FALSE, error |-> failure]
             ELSE [ok |-> TRUE, error |-> NoFailure]

-----------------------------------------------------------------------------
(* Values of the variables of a call that is not in progress *)

\* st.session_state.selected_doc_id = None
NoDocument == 0

\* no file in the uploader, and the selectbox not drawn
NoFile == [name |-> "", readable |-> FALSE, text |-> ""]
NoTemplate == <<>>

\* the locals of render_document_processing outside the handler of the
\* process button
NotProcessing ==
    [filename |-> "", template_name |-> NoTemplate, text |-> ""]

\* init_session_state
SessionIdle ==
    /\ schema_fields = <<>>
    /\ templates = <<>>
    /\ notice = NoMessage
    /\ interactions = 0
    /\ processed_docs = <<>>
    /\ selected_doc_id = NoDocument
    /\ show_result_modal = FALSE
    /\ uuids = 0
    /\ processing = NotProcessing

FieldsIdle ==
    /\ f_fields = <<>>
    /\ f_schema = MakeSchema(<<>>, <<>>)
    /\ f_check = [ok |-> FALSE, error |-> NoMessage]
    /\ f_pc = "idle"

ValidateIdle ==
    /\ v_schema = MakeSchema(<<>>, <<>>)
    /\ v_top = "null"
    /\ v_idx = 0
    /\ v_item = JNull
    /\ v_data = JNull
    /\ v_ret = [ok |-> FALSE, error |-> NoFailure]
    /\ v_pc = "idle"

ExtractIdle ==
    /\ schema = MakeSchema(<<>>, <<>>)
    /\ max_retries = 0
    /\ attempt = 0
    /\ calls = 0
    /\ raw_output = ""
    /\ last_raw_output = ""
    /\ last_error = NoFailure
    /\ ret = [parsed |-> PyNone, raw |-> "", error |-> NoFailure]
    /\ e_pc = "idle"

-----------------------------------------------------------------------------
(* SpecFields: build_json_schema and validate_schema_fields applied to     *)
(* every field list of at most MaxFields fields                            *)

InitFields ==
    /\ f_fields \in FieldLists
    /\ f_schema = MakeSchema(<<>>, <<>>)
    /\ f_check = [ok |-> FALSE, error |-> NoMessage]
    /\ f_pc = "build"
    /\ SessionIdle /\ ValidateIdle /\ ExtractIdle

\* schema = build_json_schema(st.session_state.schema_fields)
CallBuildJsonSchema ==
    /\ f_pc = "build"
    /\ f_schema' = BuildJsonSchema(f_fields)
    /\ f_pc' = "check"
    /\ UNCHANGED <<f_fields, f_check, sessionVars, validateVars, extractVars>>

\* is_valid, error = validate_schema_fields(st.session_state.schema_fields)
CallValidateSchemaFields ==
    /\ f_pc = "check"
    /\ f_check' = ValidateSchemaFields(f_fields)
    /\ f_pc' = "done"
    /\ UNCHANGED <<f_fields, f_schema, sessionVars, validateVars, extractVars>>

NextFields == CallBuildJsonSchema \/ CallValidateSchemaFields

SpecFields == InitFields /\ [][NextFields]_vars

-----------------------------------------------------------------------------
(* SpecValidate: one call of validate_against_schema on a schema that      *)
(* build_json_schema returned.  The array is read element by element, as   *)
(* the for loop reads it: v_top is the kind of the top-level value, v_idx  *)
(* the index of the loop and v_item the element last read.                 *)

Schemas == { BuildJsonSchema(fields) : fields \in FieldLists }

\* keys of the objects a model returns
ItemKeys == { <<"a">>, <<"b">> }

\* values of the objects a model returns: null, "", "100", 0, 1.5, false,
\* true and []
ItemValues ==
    { JNull, JStr(""), JStr("100"), JInt("0"), JFloat("1.5"), JBool("false"),
      JBool("true"), JList(<<>>) }

ItemPairs ==
    UNION { { pairs \in [1..n -> [key : ItemKeys, value : ItemValues]] :
                \A i, j \in 1..n : pairs[i].key = pairs[j].key => i = j } :
            n \in 0..Cardinality(ItemKeys) }

\* the elements of the arrays: objects, and values that are not objects
Elements == { JDict(pairs) : pairs \in ItemPairs } \cup ItemValues

InitValidate ==
    /\ v_schema \in Schemas
    /\ v_top \in JsonKinds
    /\ v_idx = 0
    /\ v_item = JNull
    /\ v_data = JNull
    /\ v_ret = [ok |-> FALSE, error |-> NoFailure]
    /\ v_pc = "top"
    /\ SessionIdle /\ FieldsIdle /\ ExtractIdle

\* if not isinstance(data, list): return False, ...
ValidateTop ==
    /\ v_pc = "top"
    /\ IF ~IsInstance(v_top, {"list"})
       THEN /\ v_ret' = [ok |-> FALSE, error |-> NotAnArray]
            /\ v_pc' = "done"
       ELSE /\ v_ret' = v_ret
            /\ v_pc' = "loop"
    /\ UNCHANGED <<v_schema, v_top, v_idx, v_item, v_data>>
    /\ UNCHANGED <<sessionVars, fieldVars, extractVars>>

\* one iteration of the loop over data, on its next element
ValidateNextItem(item) ==
    /\ v_pc = "loop"
    /\ v_idx < MaxItems
    /\ v_item' = item
    /\ LET failure == ValidateItem(v_idx, item, v_schema.items)
       IN  IF failure # NoFailure
           THEN /\ v_ret' = [ok |-> FALSE, error |-> failure]
                /\ v_pc' = "done"
                /\ v_idx' = v_idx
           ELSE /\ v_ret' = v_ret
                /\ v_pc' = "loop"
                /\ v_idx' = v_idx + 1
    /\ UNCHANGED <<v_schema, v_top, v_data>>
    /\ UNCHANGED <<sessionVars, fieldVars, extractVars>>

\* the loop is over: return True, None
ValidateEnd ==
    /\ v_pc = "loop"
    /\ v_ret' = [ok |-> TRUE, error |-> NoFailure]
    /\ v_pc' = "done"
    /\ UNCHANGED <<v_schema, v_top, v_idx, v_item, v_data>>
    /\ UNCHANGED <<sessionVars, fieldVars, extractVars>>

NextValidate ==
    \/ ValidateTop
    \/ \E item \in Elements : ValidateNextItem(item)
    \/ ValidateEnd

SpecValidate == InitValidate /\ [][NextValidate]_vars

-----------------------------------------------------------------------------
(* SpecValidateArray: one call of validate_against_schema on a whole       *)
(* decoded value v_data, an array of at most MaxItems elements or a value  *)
(* that is not an array                                                    *)

\* the elements of the arrays: 5, {}, {"a": "100"}, {"a": 0},
\* {"a": "", "b": 0} and {"a": true}
ArrayElements ==
    { JInt("5"),
      JDict(<<>>),
      JDict(<<[key |-> <<"a">>, value |-> JStr("100")]>>),
      JDict(<<[key |-> <<"a">>, value |-> JInt("0")]>>),
      JDict(<<[key |-> <<"a">>, value |-> JStr("")],
              [key |-> <<"b">>, value |-> JInt("0")]>>),
      JDict(<<[key |-> <<"a">>, value |-> JBool("true")]>>) }

Arrays == UNION { [1..n -> ArrayElements] : n \in 0..MaxItems }

\* the values json.loads hands to the validator: arrays, null, "100" and
\* {"a": 0}
TopLevelValues ==
    { JList(elems) : elems \in Arrays }
        \cup { JNull, JStr("100"),
               JDict(<<[key |-> <<"a">>, value |-> JInt("0")]>>) }

InitValidateArray ==
    /\ v_schema \in Schemas
    /\ v_data \in TopLevelValues
    /\ v_top = "null"
    /\ v_idx = 0
    /\ v_item = JNull
    /\ v_ret = [ok |-> FALSE, error |-> NoFailure]
    /\ v_pc = "call"
    /\ SessionIdle /\ FieldsIdle /\ ExtractIdle

\* is_valid, error = validate_against_schema(data, schema)
CallValidateAgainstSchema ==
    /\ v_pc = "call"
    /\ v_ret' = ValidateAgainstSchema(v_data, v_schema)
    /\ v_pc' = "done"
    /\ UNCHANGED <<v_schema, v_top, v_idx, v_item, v_data>>
    /\ UNCHANGED <<sessionVars, fieldVars, extractVars>>

NextValidateArray == CallValidateAgainstSchema

SpecValidateArray == InitValidateArray /\ [][NextValidateArray]_vars

-----------------------------------------------------------------------------
(* extract_structured_data *)

\* the texts the model returns (call_ollama)
RawOutputs ==
    { "not json",
      "[{\"a\": 100",
      "null",
      "{\"a\": 100}",
      "[]",
      "[{\"a\": 100}]",
      "[{\"a\": \"100\"}]",
      "[{\"a\": 100, \"b\": \"x\"}, 5]" }

Pair(key, value) == [key |-> key, value |-> value]

Decoded(value) == [ok |-> TRUE, value |-> value, msg |-> ""]
JSONDecodeError(msg) == [ok |-> FALSE, value |-> PyNone, msg |-> msg]

\* json.loads on the texts of RawOutputs: the decoded value, or the message
\* of the JSONDecodeError it raises
JsonLoads(text) ==
    CASE text = "not json" ->
             JSONDecodeError("Expecting value: line 1 column 1 (char 0)")
      [] text = "[{\"a\": 100" ->
             JSONDecodeError("Expecting ',' delimiter: line 1 column 11 (char 10)")
      [] text = "null" -> Decoded(PyNone)
      [] text = "{\"a\": 100}" ->
             Decoded(JDict(<<Pair(<<"a">>, JInt("100"))>>))
      [] text = "[]" -> Decoded(JList(<<>>))
      [] text = "[{\"a\": 100}]" ->
             Decoded(JList(<<JDict(<<Pair(<<"a">>, JInt("100"))>>)>>))
      [] text = "[{\"a\": \"100\"}]" ->
             Decoded(JList(<<JDict(<<Pair(<<"a">>, JStr("100"))>>)>>))
      [] text = "[{\"a\": 100, \"b\": \"x\"}, 5]" ->
             Decoded(JList(<<JDict(<<Pair(<<"a">>, JInt("100")),
                                     Pair(<<"b">>, JStr("x"))>>),
                             JInt("5")>>))

\* f"... JSONDecode: {e}"
DecodeFailure(msg) == [kind |-> "JSONDecode", idx |-> -1, key |-> <<>>, detail |-> msg]

\* (parsed_json_or_None, raw_output, validation_error_or_None)
Outcome(parsed, raw, error) == [parsed |-> parsed, raw |-> raw, error |-> error]

\* a plausible bug: range(max_retries + 2)
InRangeOneMore(an_attempt, retries) == 0 <= an_attempt /\ an_attempt < retries + 2

\* attempt in range(max_retries + 1)
InRange(an_attempt, retries) == 0 <= an_attempt /\ an_attempt < retries + 1

\* a plausible bug: a validation failure returns at once instead of retrying
LoopBodyNoRetry(response, a_schema, prev_error) ==
    LET decoded == JsonLoads(response)
    IN  IF ~decoded.ok
        THEN [returns |-> FALSE, ret |-> Outcome(PyNone, response, NoFailure),
              last_error |-> DecodeFailure(decoded.msg)]
        ELSE LET checked == ValidateAgainstSchema(decoded.value, a_schema)
             IN  IF checked.ok
                 THEN [returns |-> TRUE,
                       ret |-> Outcome(decoded.value, response, NoFailure),
                       last_error |-> prev_error]
                 ELSE [returns |-> TRUE,
                       ret |-> Outcome(PyNone, response, checked.error),
                       last_error |-> checked.error]

\* a plausible bug: the decode failure is not recorded before "continue"
LoopBodyDecodeNotRecorded(response, a_schema, prev_error) ==
    LET decoded == JsonLoads(response)
    IN  IF ~decoded.ok
        THEN [returns |-> FALSE, ret |-> Outcome(PyNone, response, NoFailure),
              last_error |-> prev_error]
        ELSE LET checked == ValidateAgainstSchema(decoded.value, a_schema)
             IN  IF checked.ok
                 THEN [returns |-> TRUE,
                       ret |-> Outcome(decoded.value, response, NoFailure),
                       last_error |-> prev_error]
                 ELSE [returns |-> FALSE,
                       ret |-> Outcome(PyNone, response, NoFailure),
                       last_error |-> checked.error]

\* a plausible bug: a success returns last_error in place of None
LoopBodyStaleError(response, a_schema, prev_error) ==
    LET decoded == JsonLoads(response)
    IN  IF ~decoded.ok
        THEN [returns |-> FALSE, ret |-> Outcome(PyNone, response, NoFailure),
              last_error |-> DecodeFailure(decoded.msg)]
        ELSE LET checked == ValidateAgainstSchema(decoded.value, a_schema)
             IN  IF checked.ok
                 THEN [returns |-> TRUE,
                       ret |-> Outcome(decoded.value, response, prev_error),
                       last_error |-> prev_error]
                 ELSE [returns |-> FALSE,
                       ret |-> Outcome(PyNone, response, NoFailure),
                       last_error |-> checked.error]

\* the loop body after call_ollama returned response: whether it returns,
\* what it returns, and last_error after it
LoopBody(response, a_schema, prev_error) ==
    LET decoded == JsonLoads(response)
    IN  IF ~decoded.ok
        THEN [returns |-> FALSE, ret |-> Outcome(PyNone, response, NoFailure),
              last_error |-> DecodeFailure(decoded.msg)]
        ELSE LET checked == ValidateAgainstSchema(decoded.value, a_schema)
             IN  IF checked.ok
                 THEN [returns |-> TRUE,
                       ret |-> Outcome(decoded.value, response, NoFailure),
                       last_error |-> prev_error]
                 ELSE [returns |-> FALSE,
                       ret |-> Outcome(PyNone, response, NoFailure),
                       last_error |-> checked.error]

\* the call starts: last_raw_output = "", last_error = None
ExtractStart(a_schema, retries) ==
    /\ schema = a_schema
    /\ max_retries = retries
    /\ attempt = 0
    /\ calls = 0
    /\ raw_output = ""
    /\ last_raw_output = ""
    /\ last_error = NoFailure
    /\ ret = Outcome(PyNone, "", NoFailure)
    /\ e_pc = "loop"

\* SpecExtract: one call of extract_structured_data, on a schema that
\* build_json_schema returned and any retry budget from -1 to MaxRetriesBound
InitExtract ==
    /\ \E a_schema \in Schemas, retries \in -1..MaxRetriesBound :
           ExtractStart(a_schema, retries)
    /\ SessionIdle /\ FieldsIdle /\ ValidateIdle

\* one iteration of the for loop: the model is invoked and answers response
Attempt(response) ==
    /\ e_pc = "loop"
    /\ InRange(attempt, max_retries)
    /\ calls' = calls + 1
    /\ raw_output' = response
    /\ last_raw_output' = response
    /\ LET body == LoopBody(response, schema, last_error)
       IN  /\ last_error' = body.last_error
           /\ IF body.returns
              THEN /\ ret' = body.ret
                   /\ e_pc' = "done"
                   /\ attempt' = attempt
              ELSE /\ ret' = ret
                   /\ e_pc' = "loop"
                   /\ attempt' = attempt + 1
    /\ UNCHANGED <<schema, max_retries>>
    /\ UNCHANGED <<sessionVars, fieldVars, validateVars>>

\* the loop is over: return None, last_raw_output, last_error
Exhausted ==
    /\ e_pc = "loop"
    /\ ~InRange(attempt, max_retries)
    /\ ret' = Outcome(PyNone, last_raw_output, last_error)
    /\ e_pc' = "done"
    /\ UNCHANGED <<schema, max_retries, attempt, calls, raw_output,
                   last_raw_output, last_error>>
    /\ UNCHANGED <<sessionVars, fieldVars, validateVars>>

NextExtract ==
    \/ \E response \in RawOutputs : Attempt(response)
    \/ Exhausted

SpecExtract == InitExtract /\ [][NextExtract]_vars

-----------------------------------------------------------------------------
(* render_schema_builder: the session of the schema builder tab.  Every    *)
(* action is one interaction, a run of the script from top to bottom on    *)
(* the values the widgets return.                                          *)

\* the texts a user types into the template-name input
TemplateNames == { <<>>, <<"t">>, <<" ", "t">>, <<"u">> }

TemplateNameEmpty == "template name must not be empty"
TemplateExists == "a template with this name already exists"
TemplateSaved == "template saved"

\* f"field_{len(st.session_state.schema_fields) + 1}"
DefaultFieldName(n) == <<"f", "i", "e", "l", "d", "_", ToString(n)>>

NewField(n) ==
    [name |-> DefaultFieldName(n), type |-> "string", required |-> FALSE,
     description |-> <<>>]

\* list.pop(idx), idx counted from 1
Pop(list, idx) ==
    [i \in 1..(Len(list) - 1) |-> IF i < idx THEN list[i] ELSE list[i + 1]]

RECURSIVE FieldsMeta(_)
FieldsMeta(fields) ==
    IF fields = <<>> THEN <<>>
    ELSE LET f == Head(fields)
         IN  IF Strip(f.name) = <<>> THEN FieldsMeta(Tail(fields))
             ELSE <<[name |-> Strip(f.name), type |-> f.type,
                     required |-> f.required,
                     description |-> Strip(f.description)]>>
                  \o FieldsMeta(Tail(fields))

\* a plausible bug: the check for an existing name is missing
SaveTemplateOverwrite(fields, template_name, saved) ==
    LET checked == ValidateSchemaFields(fields)
        name == Strip(template_name)
    IN  IF ~checked.ok THEN [templates |-> saved, notice |-> checked.error]
        ELSE IF name = <<>> THEN [templates |-> saved, notice |-> TemplateNameEmpty]
        ELSE [templates |->
                  DictSet(saved, name,
                          [schema |-> BuildJsonSchema(fields),
                           fields |-> FieldsMeta(fields)]),
              notice |-> TemplateSaved]

\* a plausible bug: the field list is saved without validate_schema_fields
SaveTemplateUnchecked(fields, template_name, saved) ==
    LET name == Strip(template_name)
    IN  IF name = <<>> THEN [templates |-> saved, notice |-> TemplateNameEmpty]
        ELSE IF DictHas(saved, name)
             THEN [templates |-> saved, notice |-> TemplateExists]
        ELSE [templates |->
                  DictSet(saved, name,
                          [schema |-> BuildJsonSchema(fields),
                           fields |-> FieldsMeta(fields)]),
              notice |-> TemplateSaved]

\* the handler of the save button: the templates and the message after it
SaveTemplate(fields, template_name, saved) ==
    LET checked == ValidateSchemaFields(fields)
        name == Strip(template_name)
    IN  IF ~checked.ok THEN [templates |-> saved, notice |-> checked.error]
        ELSE IF name = <<>> THEN [templates |-> saved, notice |-> TemplateNameEmpty]
        ELSE IF DictHas(saved, name)
             THEN [templates |-> saved, notice |-> TemplateExists]
        ELSE [templates |->
                  DictSet(saved, name,
                          [schema |-> BuildJsonSchema(fields),
                           fields |-> FieldsMeta(fields)]),
              notice |-> TemplateSaved]

Init ==
    /\ SessionIdle
    /\ FieldsIdle /\ ValidateIdle /\ ExtractIdle

Interaction ==
    /\ e_pc = "idle"
    /\ interactions < MaxInteractions
    /\ interactions' = interactions + 1
    /\ UNCHANGED <<fieldVars, validateVars, extractVars>>

\* the add button
AddField ==
    /\ Interaction
    /\ Len(schema_fields) < MaxFields
    /\ schema_fields' = Append(schema_fields, NewField(Len(schema_fields) + 1))
    /\ notice' = NoMessage
    /\ UNCHANGED <<templates, docVars>>

\* the name input of field idx returns another text
RenameField(idx, name) ==
    /\ Interaction
    /\ schema_fields[idx].name # name
    /\ schema_fields' = [schema_fields EXCEPT ![idx].name = name]
    /\ notice' = NoMessage
    /\ UNCHANGED <<templates, docVars>>

\* the type selectbox of field idx returns another option
RetypeField(idx, type) ==
    /\ Interaction
    /\ schema_fields[idx].type # type
    /\ schema_fields' = [schema_fields EXCEPT ![idx].type = type]
    /\ notice' = NoMessage
    /\ UNCHANGED <<templates, docVars>>

\* the required checkbox of field idx is toggled
ToggleRequired(idx) ==
    /\ Interaction
    /\ schema_fields' = [schema_fields EXCEPT ![idx].required = ~@]
    /\ notice' = NoMessage
    /\ UNCHANGED <<templates, docVars>>

\* the description input of field idx returns another text
DescribeField(idx, description) ==
    /\ Interaction
    /\ schema_fields[idx].description # description
    /\ schema_fields' = [schema_fields EXCEPT ![idx].description = description]
    /\ notice' = NoMessage
    /\ UNCHANGED <<templates, docVars>>

\* the remove button of field idx
RemoveField(idx) ==
    /\ Interaction
    /\ schema_fields' = Pop(schema_fields, idx)
    /\ notice' = NoMessage
    /\ UNCHANGED <<templates, docVars>>

\* the save button, with template_name in the template-name input
ClickSaveTemplate(template_name) ==
    /\ Interaction
    /\ LET after == SaveTemplate(schema_fields, template_name, templates)
       IN  /\ templates' = after.templates
           /\ notice' = after.notice
    /\ UNCHANGED <<schema_fields, docVars>>

-----------------------------------------------------------------------------
(* render_document_processing, register_processed_document and the list   *)
(* and dialog of the processed documents.  The handler of the process      *)
(* button runs extract_structured_data with max_retries = 1; while the     *)
(* call runs the script takes no other interaction.                        *)

UploadFirst == "upload a file first"
ChooseTemplate == "choose a template"
FileReadError == "error while reading the file"
ModelCallError == "the model call raised"
ExtractionFailed == "no valid JSON from the model"
DocumentProcessed == "document processed"

\* the files in the uploader: one whose text is read, one whose reader
\* raises
UploadedFiles ==
    { [name |-> "a.txt", readable |-> TRUE, text |-> "total 100"],
      [name |-> "b.pdf", readable |-> FALSE, text |-> ""] }

\* the options of the template selectbox, None when it is not drawn
SelectableTemplates ==
    IF templates = <<>> THEN {NoTemplate} ELSE DictKeys(templates)

\* str(uuid.uuid4()) on its n-th call: a value no earlier call returned
Uuid4(n) == n

\* pd.DataFrame(json_result) if isinstance(json_result, list) else
\* pd.DataFrame(): one row for each element
DataFrame(json_result) ==
    IF IsInstance(json_result.kind, {"list"})
    THEN [rows |-> Len(json_result.elems)]
    ELSE [rows |-> 0]

RegisterProcessedDocument(docs, doc_id, filename, template_name, a_schema, raw_text, json_result) ==
    Append(docs,
           [id |-> doc_id, filename |-> filename,
            template_name |-> template_name, schema |-> a_schema,
            raw_text |-> raw_text, json_result |-> json_result,
            dataframe |-> DataFrame(json_result)])

\* a plausible bug: the outcome is registered whether or not it holds data
AfterExtractionAlwaysRegisters(docs, drawn, job, a_schema, outcome) ==
    [processed_docs |->
         RegisterProcessedDocument(docs, Uuid4(drawn + 1), job.filename,
                                   job.template_name, a_schema, job.text,
                                   outcome.parsed),
     uuids |-> drawn + 1,
     notice |-> DocumentProcessed]

\* the handler of the process button after extract_structured_data
\* returned: the registry, the number of identifiers drawn and the message
AfterExtraction(docs, drawn, job, a_schema, outcome) ==
    IF outcome.parsed = PyNone
    THEN [processed_docs |-> docs, uuids |-> drawn, notice |-> ExtractionFailed]
    ELSE [processed_docs |->
              RegisterProcessedDocument(docs, Uuid4(drawn + 1), job.filename,
                                        job.template_name, a_schema, job.text,
                                        outcome.parsed),
          uuids |-> drawn + 1,
          notice |-> DocumentProcessed]

\* extract_structured_data is entered
ExtractCalled(a_schema, retries) ==
    /\ schema' = a_schema
    /\ max_retries' = retries
    /\ attempt' = 0
    /\ calls' = 0
    /\ raw_output' = ""
    /\ last_raw_output' = ""
    /\ last_error' = NoFailure
    /\ ret' = Outcome(PyNone, "", NoFailure)
    /\ e_pc' = "loop"

\* the handler is left: its locals and those of the call are gone
HandlerLeft ==
    /\ schema' = MakeSchema(<<>>, <<>>)
    /\ max_retries' = 0
    /\ attempt' = 0
    /\ calls' = 0
    /\ raw_output' = ""
    /\ last_raw_output' = ""
    /\ last_error' = NoFailure
    /\ ret' = Outcome(PyNone, "", NoFailure)
    /\ e_pc' = "idle"
    /\ processing' = NotProcessing

\* the process button, with file in the uploader and template_name in the
\* selectbox, up to the call of extract_structured_data
ClickProcess(file, template_name) ==
    /\ e_pc = "idle"
    /\ interactions < MaxInteractions
    /\ interactions' = interactions + 1
    /\ IF file = NoFile \/ template_name = NoTemplate \/ ~file.readable
       THEN /\ notice' = IF file = NoFile THEN UploadFirst
                          ELSE IF template_name = NoTemplate THEN ChooseTemplate
                          ELSE FileReadError
            /\ UNCHANGED <<processing, extractVars>>
       ELSE /\ processing' = [filename |-> file.name,
                              template_name |-> template_name,
                              text |-> file.text]
            /\ ExtractCalled(DictGet(templates, template_name).schema, 1)
            /\ notice' = NoMessage
    /\ UNCHANGED <<schema_fields, templates, processed_docs, selected_doc_id,
                   show_result_modal, uuids>>
    /\ UNCHANGED <<fieldVars, validateVars>>

\* call_ollama raises: the exception leaves the handler
CallOllamaRaises ==
    /\ e_pc = "loop"
    /\ InRange(attempt, max_retries)
    /\ HandlerLeft
    /\ notice' = ModelCallError
    /\ UNCHANGED <<schema_fields, templates, interactions, processed_docs,
                   selected_doc_id, show_result_modal, uuids>>
    /\ UNCHANGED <<fieldVars, validateVars>>

\* extract_structured_data returned: the rest of the handler
FinishProcess ==
    /\ e_pc = "done"
    /\ LET after == AfterExtraction(processed_docs, uuids, processing, schema,
                                    ret)
       IN  /\ processed_docs' = after.processed_docs
           /\ uuids' = after.uuids
           /\ notice' = after.notice
    /\ HandlerLeft
    /\ UNCHANGED <<schema_fields, templates, interactions, selected_doc_id,
                   show_result_modal>>
    /\ UNCHANGED <<fieldVars, validateVars>>

\* the button of the document at position idx of the list
SelectDocument(idx) ==
    /\ Interaction
    /\ selected_doc_id' = processed_docs[idx].id
    /\ show_result_modal' = TRUE
    /\ notice' = NoMessage
    /\ UNCHANGED <<schema_fields, templates, processed_docs, uuids, processing>>

\* the close button of the dialog
CloseDialog ==
    /\ Interaction
    /\ show_result_modal
    /\ show_result_modal' = FALSE
    /\ notice' = NoMessage
    /\ UNCHANGED <<schema_fields, templates, processed_docs, selected_doc_id,
                   uuids, processing>>

Next ==
    \/ AddField
    \/ \E idx \in 1..Len(schema_fields), name \in FieldNames : RenameField(idx, name)
    \/ \E idx \in 1..Len(schema_fields), type \in FieldTypes : RetypeField(idx, type)
    \/ \E idx \in 1..Len(schema_fields) : ToggleRequired(idx)
    \/ \E idx \in 1..Len(schema_fields), description \in Descriptions :
           DescribeField(idx, description)
    \/ \E idx \in 1..Len(schema_fields) : RemoveField(idx)
    \/ \E template_name \in TemplateNames : ClickSaveTemplate(template_name)
    \/ \E file \in UploadedFiles \cup {NoFile},
          template_name \in SelectableTemplates :
           ClickProcess(file, template_name)
    \/ \E response \in RawOutputs : Attempt(response)
    \/ Exhausted
    \/ CallOllamaRaises
    \/ FinishProcess
    \/ \E idx \in 1..Len(processed_docs) : SelectDocument(idx)
    \/ CloseDialog

Spec == Init /\ [][Next]_vars

-----------------------------------------------------------------------------
(* Claims about validate_schema_fields and build_json_schema (SpecFields)  *)

\* some field of the list has a name that is not empty once stripped
HasNonEmptyName(fields) ==
    \E i \in 1..Len(fields) : Strip(fields[i].name) # <<>>

\* two fields of the list have the same non-empty stripped name
HasRepeatedName(fields) ==
    \E i, j \in 1..Len(fields) :
        /\ i # j
        /\ Strip(fields[i].name) # <<>>
        /\ Strip(fields[i].name) = Strip(fields[j].name)

\* C8: validate_schema_fields succeeds exactly on the lists that have a
\* non-empty name and no repeated stripped name, fails with the
\* empty-field-set message when no field has a non-empty stripped name, and
\* fails with the duplicate-name message when two non-empty stripped names
\* are equal.
C8_ValidateSchemaFields ==
    f_pc = "done" =>
        /\ (HasNonEmptyName(f_fields) /\ ~HasRepeatedName(f_fields))
               => f_check = [ok |-> TRUE, error |-> NoMessage]
        /\ ~HasNonEmptyName(f_fields)
               => f_check = [ok |-> FALSE, error |-> EmptyFieldSet]
        /\ HasRepeatedName(f_fields)
               => f_check = [ok |-> FALSE, error |-> DuplicateFieldName]

\* a list whose two names differ as typed and collide once stripped was
\* rejected as a duplicate
C8_Witness ==
    /\ f_pc = "done"
    /\ Len(f_fields) = 2
    /\ f_fields[1].name # f_fields[2].name
    /\ HasRepeatedName(f_fields)
    /\ f_check.error = DuplicateFieldName

\* C9: in the schema build_json_schema returns, every required name is a key
\* of properties, no key of properties is the empty string, the keys are the
\* non-empty stripped field names, and each property holds its type and
\* nothing else (no description).
C9_BuildJsonSchema ==
    f_pc \in {"check", "done"} =>
        LET properties == f_schema.items.properties
            required == f_schema.items.required
        IN  /\ \A i \in 1..Len(required) : required[i] \in DictKeys(properties)
            /\ <<>> \notin DictKeys(properties)
            /\ DictKeys(properties) =
                   { Strip(f_fields[i].name) : i \in 1..Len(f_fields) } \ { <<>> }
            /\ \A i, j \in 1..Len(properties) :
                   properties[i].key = properties[j].key => i = j
            /\ \A i \in 1..Len(properties) :
                   /\ DOMAIN properties[i].value = {"type"}
                   /\ \E k \in 1..Len(f_fields) :
                          /\ Strip(f_fields[k].name) = properties[i].key
                          /\ f_fields[k].type = properties[i].value.type
            /\ DOMAIN f_schema = {"type", "items"}
            /\ DOMAIN f_schema.items = {"type", "properties", "required"}

\* a schema was built from a list that holds a field with an empty name and
\* a required field that carries a description
C9_Witness ==
    /\ f_pc = "done"
    /\ \E i \in 1..Len(f_fields) : Strip(f_fields[i].name) = <<>>
    /\ \E i \in 1..Len(f_fields) :
           /\ f_fields[i].description # <<>>
           /\ f_fields[i].required
           /\ Strip(f_fields[i].name) \in DictKeys(f_schema.items.properties)
    /\ Len(f_schema.items.required) = 1

-----------------------------------------------------------------------------
(* Claims about validate_against_schema (SpecValidate)                     *)

\* the element v_item, at index v_idx - 1, passed the loop body
ItemAccepted ==
    /\ v_top = "list"
    /\ v_idx > 0
    /\ v_pc = "loop" \/ (v_pc = "done" /\ v_ret.ok)

\* the element v_item, at index v_idx, made the call return a failure
ItemRejected ==
    /\ v_top = "list"
    /\ v_pc = "done"
    /\ ~v_ret.ok

\* JSON's reading of the three declared types, with no coercion
MatchesDeclaredType(declared, value) ==
    /\ declared = "string" => value.kind = "str"
    /\ declared = "number" => value.kind \in {"int", "float"}
    /\ declared = "boolean" => value.kind = "bool"

\* the pairs of an object whose key is declared with another type
MismatchedPairs(item, properties) ==
    { i \in 1..Len(item.pairs) :
        /\ DictHas(properties, item.pairs[i].key)
        /\ ~MatchesDeclaredType(DictGet(properties, item.pairs[i].key).type,
                                item.pairs[i].value) }

\* the object holds nothing, null or "" under the name
LacksField(item, name) ==
    \A i \in 1..Len(item.pairs) :
        item.pairs[i].key = name => item.pairs[i].value \in {JNull, JStr("")}

\* the required names an object lacks
MissingFields(item, required) ==
    { i \in 1..Len(required) : LacksField(item, required[i]) }

Min(S) == CHOOSE x \in S : \A y \in S : x <= y

\* C5: an element is accepted only if every declared key of it holds a value
\* of the declared type ('number' takes integer and floating values only),
\* and an object that lacks no required field and holds a value of another
\* kind under a declared key is rejected with a type mismatch that names its
\* index and the first such key.
C5_NoCoercion ==
    /\ ItemAccepted =>
           /\ v_item.kind = "dict"
           /\ MismatchedPairs(v_item, v_schema.items.properties) = {}
    /\ ( /\ ItemRejected
         /\ v_item.kind = "dict"
         /\ MissingFields(v_item, v_schema.items.required) = {}
         /\ MismatchedPairs(v_item, v_schema.items.properties) # {} )
       => LET first == Min(MismatchedPairs(v_item, v_schema.items.properties))
              key == v_item.pairs[first].key
          IN  v_ret.error =
                  TypeMismatch(v_idx, key, DictGet(v_schema.items.properties, key).type)

\* C6: an object that lacks a required field (the key is absent, or holds
\* null or "") is never accepted and is rejected with the missing-field
\* failure naming its index and the first such name of the required list; a
\* missing-field failure names only a required field that the element at that
\* index lacks, so a required key holding 0 or false is not reported.
C6_RequiredFields ==
    /\ ItemAccepted => MissingFields(v_item, v_schema.items.required) = {}
    /\ ( /\ ItemRejected
         /\ v_item.kind = "dict"
         /\ MissingFields(v_item, v_schema.items.required) # {} )
       => LET first == Min(MissingFields(v_item, v_schema.items.required))
          IN  v_ret.error = MissingRequiredField(v_idx, v_schema.items.required[first])
    /\ (v_pc = "done" /\ v_ret.error.kind = "MissingRequiredField")
       => /\ ItemRejected
          /\ v_ret.error.idx = v_idx
          /\ v_ret.error.key \in SeqToSet(v_schema.items.required)
          /\ v_item.kind = "dict"
          /\ LacksField(v_item, v_ret.error.key)

\* the element at index 1 holds false under the first required name and ""
\* under the second, and is reported as missing the second
C6_Witness ==
    /\ ItemRejected
    /\ v_idx = 1
    /\ Len(v_schema.items.required) = 2
    /\ v_item.kind = "dict"
    /\ Len(v_item.pairs) = 2
    /\ DictGet(v_item.pairs, v_schema.items.required[1]) = JBool("false")
    /\ DictGet(v_item.pairs, v_schema.items.required[2]) = JStr("")
    /\ v_ret.error = MissingRequiredField(1, v_schema.items.required[2])

\* an object in which every required field is present, not null and not "",
\* and every declared key holds a value of its declared type
Conforms(item, item_schema) ==
    /\ item.kind = "dict"
    /\ MissingFields(item, item_schema.required) = {}
    /\ MismatchedPairs(item, item_schema.properties) = {}

\* C7: validate_against_schema fails on an array only at an element that
\* does not conform, so an array of conforming objects (the empty array
\* included) returns (True, None), undeclared keys or not.
C7_ConformingArray ==
    (v_top = "list" /\ v_pc = "done") =>
        /\ ~v_ret.ok => ~Conforms(v_item, v_schema.items)
        /\ v_ret.ok => v_ret.error = NoFailure

\* an array of two objects was accepted whose last object conforms to a
\* schema with a required field and carries an undeclared key
C7_Witness ==
    /\ v_top = "list"
    /\ v_pc = "done"
    /\ v_ret.ok
    /\ v_idx = 2
    /\ Len(v_schema.items.required) = 1
    /\ Conforms(v_item, v_schema.items)
    /\ \E i \in 1..Len(v_item.pairs) :
           ~DictHas(v_schema.items.properties, v_item.pairs[i].key)

-----------------------------------------------------------------------------
(* Claims about extract_structured_data (SpecExtract)                      *)

\* the text decodes and the decoded value passes validate_against_schema
ResponseSucceeds(text, a_schema) ==
    /\ JsonLoads(text).ok
    /\ ValidateAgainstSchema(JsonLoads(text).value, a_schema).ok

\* the failure of an attempt whose response is text: the decode error if
\* the text does not decode, the validator's failure otherwise
FailureOf(text, a_schema) ==
    IF ~JsonLoads(text).ok
    THEN DecodeFailure(JsonLoads(text).msg)
    ELSE ValidateAgainstSchema(JsonLoads(text).value, a_schema).error

\* the call returned after a last attempt that failed
ReturnedAfterFailure ==
    /\ e_pc = "done"
    /\ calls >= 1
    /\ ~ResponseSucceeds(raw_output, schema)

\* the call returned after a last attempt that succeeded
ReturnedAfterSuccess ==
    /\ e_pc = "done"
    /\ calls >= 1
    /\ ResponseSucceeds(raw_output, schema)

\* C1: with max_retries = N >= 0 the model is invoked at most N + 1 times
\* (at most twice with max_retries = 1), every iteration that does not
\* return uses up one attempt, and the call can always go on until it returns.
C1_BoundedInvocations ==
    max_retries >= 0 =>
        /\ calls <= max_retries + 1
        /\ max_retries = 1 => calls <= 2
        /\ e_pc = "loop" => (calls = attempt /\ ENABLED NextExtract)
        /\ e_pc = "done" => calls >= 1

\* with max_retries = 1 the call returned after two invocations
C1_Witness ==
    /\ e_pc = "done"
    /\ max_retries = 1
    /\ calls = 2

\* C2: the loop goes on only after a response that failed, each failure
\* advancing the attempt counter by one; the first response that decodes and
\* validates, at attempt k, ends the call after exactly k + 1 invocations
\* with the value decoded from it, its raw text and no error; a failure ends
\* the call only when the budget is used up; nothing is invoked after the
\* return.
C2_FirstSuccessReturns ==
    /\ e_pc = "loop" => calls = attempt
    /\ (e_pc = "loop" /\ calls >= 1) => ~ResponseSucceeds(raw_output, schema)
    /\ ReturnedAfterSuccess =>
           /\ calls = attempt + 1
           /\ attempt <= max_retries
           /\ ret = Outcome(JsonLoads(raw_output).value, raw_output, NoFailure)
    /\ ReturnedAfterFailure => calls = max_retries + 1
    /\ e_pc = "done" => ~ENABLED NextExtract

\* the second of three allowed attempts succeeded and the call returned its
\* value after two invocations
C2_Witness ==
    /\ ReturnedAfterSuccess
    /\ max_retries = 2
    /\ attempt = 1
    /\ calls = 2
    /\ ret.parsed = JsonLoads(raw_output).value
    /\ ret.parsed # JList(<<>>)

\* C3: when every one of the max_retries + 1 attempts failed, the call
\* returns None, the raw text of the last invocation and the failure of the
\* last attempt: its decode error if it failed at decode, the validator's
\* failure for it otherwise.
C3_ExhaustedOutcome ==
    ReturnedAfterFailure =>
        /\ calls = max_retries + 1
        /\ ret = Outcome(PyNone, raw_output, FailureOf(raw_output, schema))

\* three attempts failed, the last one at decode, and the call returned the
\* decode error of the last response
C3_Witness ==
    /\ ReturnedAfterFailure
    /\ max_retries = 2
    /\ calls = 3
    /\ ret.raw = "[{\"a\": 100"
    /\ ret.error.kind = "JSONDecode"

\* exactly one of parsedData and errorDescription is populated
ExactlyOnePopulated(outcome) ==
    \/ outcome.parsed # PyNone /\ outcome.error = NoFailure
    \/ outcome.parsed = PyNone /\ outcome.error # NoFailure

\* C4 as stated: for any max_retries value, the returned outcome holds
\* exactly one of parsedData and errorDescription.
C4_ExactlyOneAnyBudget ==
    e_pc = "done" => ExactlyOnePopulated(ret)

\* C4 as amended: for max_retries >= 0, the returned outcome holds exactly
\* one of parsedData and errorDescription.
C4_ExactlyOne ==
    (e_pc = "done" /\ max_retries >= 0) => ExactlyOnePopulated(ret)

\* the last response was the text null, which decodes to None: the call
\* returned no data and the validator's failure
C4_Witness ==
    /\ e_pc = "done"
    /\ max_retries >= 0
    /\ ret = Outcome(PyNone, "null", NotAnArray)

-----------------------------------------------------------------------------
(* Claims about the templates of a session (Spec)                          *)

\* C10: in every step of a session the templates saved so far stay as they
\* are, under their names and in their order (a step adds at most one
\* template after them), template names stay pairwise distinct, and a save
\* rejected because its name exists leaves the templates unchanged.
C10_TemplatesImmutable ==
    [][ /\ Len(templates') >= Len(templates)
        /\ Len(templates') <= Len(templates) + 1
        /\ SubSeq(templates', 1, Len(templates)) = templates
        /\ \A i, j \in 1..Len(templates') :
               templates'[i].key = templates'[j].key => i = j
        /\ notice' = TemplateExists => templates' = templates
        /\ schema_fields' # schema_fields => templates' = templates ]_vars

\* a template was saved, the field list was edited, and a second save under
\* the same name was rejected: the template still holds the schema it was
\* saved with, which is no longer the schema of the field list
C10_Witness ==
    /\ notice = TemplateExists
    /\ Len(templates) = 1
    /\ templates[1].value.schema # BuildJsonSchema(schema_fields)
    /\ ValidateSchemaFields(schema_fields).ok


-----------------------------------------------------------------------------
(* Claims about the order of the rules of validate_against_schema          *)
(* (SpecValidateArray)                                                     *)

\* the number of the rule a failure reports, 0 for no failure
RuleOf(failure) ==
    CASE failure.kind = "NotAnArray" -> 1
      [] failure.kind = "ElementNotAnObject" -> 2
      [] failure.kind = "MissingRequiredField" -> 3
      [] failure.kind = "TypeMismatch" -> 4
      [] failure.kind = "None" -> 0

\* a declared key of the object holds a value the type check turns down
TypeCheckRejects(item, properties) ==
    \E i \in 1..Len(item.pairs) :
        /\ DictHas(properties, item.pairs[i].key)
        /\ TypeFails(DictGet(properties, item.pairs[i].key).type,
                     item.pairs[i].value)

\* the rules among 2, 3 and 4 that an element violates
ViolatedRules(item, item_schema) ==
    IF item.kind # "dict" THEN {2}
    ELSE (IF MissingFields(item, item_schema.required) # {} THEN {3} ELSE {})
         \cup (IF TypeCheckRejects(item, item_schema.properties)
               THEN {4} ELSE {})

\* the rules that a decoded value violates
ValueViolatedRules(data, a_schema) ==
    IF data.kind # "list" THEN {1}
    ELSE UNION { ViolatedRules(data.elems[i], a_schema.items) :
                 i \in 1..Len(data.elems) }

\* the positions of the elements of an array that violate some rule
ViolatingElements(data, a_schema) ==
    { i \in 1..Len(data.elems) :
        ViolatedRules(data.elems[i], a_schema.items) # {} }

\* C11 as stated: the call fails exactly when the value violates a rule, and
\* the failure returned is that of the lowest-numbered rule that the value
\* violates anywhere.
C11_LowestRuleOfValue ==
    v_pc = "done" =>
        LET rules == ValueViolatedRules(v_data, v_schema)
        IN  IF rules = {} THEN v_ret = [ok |-> TRUE, error |-> NoFailure]
            ELSE ~v_ret.ok /\ RuleOf(v_ret.error) = Min(rules)

\* C11, amended: rule 1 comes first; the elements of an array are then taken
\* in index order and rules 2, 3, 4 are applied to one element before the
\* next element is read.  The failure returned is that of the first element
\* that violates a rule, names its index and is the lowest-numbered rule this
\* element violates; the elements after it have no part in the result, which
\* is the one returned for the array cut after that element.
C11_FirstFailureInOrder ==
    v_pc = "done" =>
        IF v_data.kind # "list" THEN v_ret = [ok |-> FALSE, error |-> NotAnArray]
        ELSE LET bad == ViolatingElements(v_data, v_schema)
             IN  IF bad = {} THEN v_ret = [ok |-> TRUE, error |-> NoFailure]
                 ELSE LET first == Min(bad)
                      IN  /\ ~v_ret.ok
                          /\ v_ret.error.idx = first - 1
                          /\ RuleOf(v_ret.error) =
                                 Min(ViolatedRules(v_data.elems[first],
                                                   v_schema.items))
                          /\ v_ret = ValidateAgainstSchema(
                                         JList(SubSeq(v_data.elems, 1, first)),
                                         v_schema)

\* an array of two elements: the first is an object that lacks a required
\* field and holds a value of the wrong type, the second is not an object;
\* the call reports the missing field of the first
C11_Witness ==
    /\ v_pc = "done"
    /\ v_data.kind = "list"
    /\ Len(v_data.elems) = 2
    /\ ViolatedRules(v_data.elems[1], v_schema.items) = {3, 4}
    /\ ViolatedRules(v_data.elems[2], v_schema.items) = {2}
    /\ RuleOf(v_ret.error) = 3
    /\ v_ret.error.idx = 0


-----------------------------------------------------------------------------
(* Claims about the session: templates and processed documents (Spec)      *)

\* a stored template that carries no authoring error: its name is not empty,
\* its schema has a property, and its stored field names are not empty and
\* pairwise distinct
TemplateChecked(entry) ==
    /\ entry.key # <<>>
    /\ Len(entry.value.schema.items.properties) >= 1
    /\ \A i \in 1..Len(entry.value.fields) : entry.value.fields[i].name # <<>>
    /\ \A i, j \in 1..Len(entry.value.fields) :
           entry.value.fields[i].name = entry.value.fields[j].name => i = j

\* a call of extract_structured_data is in progress or has just returned
ExtractionRunning == e_pc # "idle"

\* the messages of a save that failed
SaveFailures ==
    {EmptyFieldSet, DuplicateFieldName, TemplateNameEmpty, TemplateExists}

\* C12: after every step of a session every stored template carries no
\* authoring error; a step that stores a template does so from a field list
\* that passes validate_schema_fields, under a name that is not empty and was
\* not stored before, and stores the schema of that field list; a save that
\* failed stores nothing; and a call of extract_structured_data runs on the
\* schema of the stored template that was selected.
C12_AuthoringErrorsStopped ==
    [][ /\ \A i \in 1..Len(templates') : TemplateChecked(templates'[i])
        /\ templates' # templates =>
               /\ ValidateSchemaFields(schema_fields).ok
               /\ Len(templates') = Len(templates) + 1
               /\ LET new == templates'[Len(templates')]
                  IN  /\ ~DictHas(templates, new.key)
                      /\ new.value.schema = BuildJsonSchema(schema_fields)
        /\ notice' \in SaveFailures => templates' = templates
        /\ ExtractionRunning' =>
               /\ DictHas(templates', processing'.template_name)
               /\ schema' = DictGet(templates', processing'.template_name).schema
               /\ Len(schema'.items.properties) >= 1 ]_vars

\* a template was saved and a document was processed with its schema; the
\* field list was then left without a named field and a second save failed,
\* storing nothing
C12_Witness ==
    /\ notice = EmptyFieldSet
    /\ Len(templates) = 1
    /\ Len(processed_docs) = 1
    /\ processed_docs[1].schema = templates[1].value.schema
    /\ processed_docs[1].template_name = templates[1].key


\* the ids of the records of a registry
DocumentIds(docs) == { docs[i].id : i \in 1..Len(docs) }

\* the step in which the handler of the process button goes on after
\* extract_structured_data returned
ExtractionReturned == e_pc = "done" /\ e_pc' = "idle"

\* C13: in every step of a session the records of processed_docs stay as
\* they are and in their order, and at most one record is added after them;
\* a record is added exactly in the step that follows a call of
\* extract_structured_data that returned parsed data, and it holds the file
\* name, template name, schema, text and data of that interaction under an
\* id that no earlier record has; nothing is added when the text of the file
\* cannot be read (no call of the model is then made), when the retry budget
\* is exhausted, or in any other step.
C13_RegistryAppendOnly ==
    [][ /\ Len(processed_docs') >= Len(processed_docs)
        /\ Len(processed_docs') <= Len(processed_docs) + 1
        /\ SubSeq(processed_docs', 1, Len(processed_docs)) = processed_docs
        /\ (ExtractionReturned /\ ret.parsed # PyNone)
               <=> Len(processed_docs') = Len(processed_docs) + 1
        /\ Len(processed_docs') = Len(processed_docs) + 1 =>
               LET doc == processed_docs'[Len(processed_docs')]
               IN  /\ doc.id \notin DocumentIds(processed_docs)
                   /\ doc.filename = processing.filename
                   /\ doc.template_name = processing.template_name
                   /\ doc.schema = schema
                   /\ doc.raw_text = processing.text
                   /\ doc.json_result = ret.parsed
        /\ \A i, j \in 1..Len(processed_docs') :
               processed_docs'[i].id = processed_docs'[j].id => i = j
        /\ notice' = FileReadError =>
               /\ processed_docs' = processed_docs
               /\ ~ExtractionRunning'
               /\ calls' = 0
        /\ (ExtractionReturned /\ calls = max_retries + 1 /\ ret.parsed = PyNone)
               => processed_docs' = processed_docs ]_vars

\* two documents were registered under distinct ids, and a third
\* interaction, whose two attempts failed, left the registry as it was
C13_Witness ==
    /\ notice = ExtractionFailed
    /\ Len(processed_docs) = 2
    /\ processed_docs[1].id # processed_docs[2].id
    /\ uuids = 2

=============================================================================
